---- MODULE Spec2Model ----
(***************************************************************************)
(* Flask-Compress (src/flask_compress.py): the configuration defaults of   *)
(* Compress.init_app and the response pipeline Compress.after_request,     *)
(* with the DictCache backend and the two compression routines.            *)
(*                                                                         *)
(* Text (header values) is a sequence of one-character strings, so that    *)
(* str.lower(), the `in` substring test and str.format are computed as the *)
(* code computes them.  Bytes (bodies) are sequences of integers.          *)
(***************************************************************************)
EXTENDS Integers, Sequences, FiniteSets, TLC

VARIABLES
    config,       \* app.config: option name -> value (a key is absent until set)
    cache,        \* self._cache: [present |-> FALSE] is None, else a DictCache's data
    cache_keys,   \* self._cache_keys, indexed by encoding + 1
    phase,        \* "created" (before init_app), "idle", "pending", "done"
    request,      \* flask.request of the response in hand
    response,     \* the response object after_request mutates in place
    entry,        \* the response as it was when after_request was last entered
    outcome,      \* of the last after_request: "none", "returned", "raised"
    calls,        \* spy: the collaborator calls the last after_request made, in order
    workers,      \* concurrent requests, one after_request each, stepwise
    registered,   \* whether init_app has wired after_request into the application
    inits,        \* how many times init_app has run
    supplied,     \* app.config as the application supplied it, before init_app
    initcfg       \* app.config as it was when init_app last returned

vars == <<config, cache, cache_keys, phase, request, response, entry, outcome,
          calls, workers, registered, inits, supplied, initcfg>>

------------------------------------------------------------------------------
(* Bounds of the model *)

MaxBodyLen == 3

MaxTime == 1

MaxInits == 2

MaxConfigChanges == 1

(* Program constants *)

BROTLI == 0

GZIP == 1

Z_BEST_COMPRESSION == 9

DefaultLevel == 6

DefaultMinSize == 500

------------------------------------------------------------------------------
(* Text *)

UpperChars == <<"A","B","C","D","E","F","G","H","I","J","K","L","M",
                "N","O","P","Q","R","S","T","U","V","W","X","Y","Z">>

LowerChars == <<"a","b","c","d","e","f","g","h","i","j","k","l","m",
                "n","o","p","q","r","s","t","u","v","w","x","y","z">>

\* str.lower() on one character
LowerChar(c) ==
    IF \E i \in 1..26 : UpperChars[i] = c
    THEN LowerChars[CHOOSE i \in 1..26 : UpperChars[i] = c]
    ELSE c

\* str.lower()
Lower(s) == [i \in 1..Len(s) |-> LowerChar(s[i])]

\* `sub in s` on str
Contains(sub, s) ==
    \E i \in 0..(Len(s) - Len(sub)) : SubSeq(s, i + 1, i + Len(sub)) = sub

T_gzip == <<"g","z","i","p">>

T_brotli == <<"b","r","o","t","l","i">>

T_AcceptEncoding ==
    <<"A","c","c","e","p","t","-","E","n","c","o","d","i","n","g">>

T_accept_encoding ==
    <<"a","c","c","e","p","t","-","e","n","c","o","d","i","n","g">>

\* CONTENT_ENCODINGS, indexed by encoding + 1
CONTENT_ENCODINGS == <<T_brotli, T_gzip>>

TEXT_TYPES == {"text/html", "text/css", "text/xml", "application/json",
               "application/javascript"}

------------------------------------------------------------------------------
(* Configuration: Compress.init_app *)

\* Python's None, where the value is otherwise a name
None == "None"

OptionNames == {"COMPRESS_MIMETYPES", "COMPRESS_LEVEL", "COMPRESS_MIN_SIZE",
                "ENABLE_GZIP", "ENABLE_BROTLI", "GZIP_COMPRESS_CACHE_KEY",
                "BROTLI_COMPRESS_CACHE_KEY", "COMPRESS_CACHE_BACKEND",
                "COMPRESS_REGISTER"}

\* the `defaults` list of init_app, in its order
defaults == <<
    <<"COMPRESS_MIMETYPES", TEXT_TYPES>>,
    <<"COMPRESS_LEVEL", DefaultLevel>>,
    <<"COMPRESS_MIN_SIZE", DefaultMinSize>>,
    <<"ENABLE_GZIP", TRUE>>,
    <<"ENABLE_BROTLI", TRUE>>,
    <<"GZIP_COMPRESS_CACHE_KEY", None>>,
    <<"BROTLI_COMPRESS_CACHE_KEY", None>>,
    <<"COMPRESS_CACHE_BACKEND", None>>,
    <<"COMPRESS_REGISTER", TRUE>> >>

\* setdefault that writes whether or not the key is there
SetDefaultOverwrite(cfg, k, v) ==
    [x \in DOMAIN cfg \cup {k} |-> IF x = k THEN v ELSE cfg[x]]

\* dict.setdefault(k, v)
SetDefault(cfg, k, v) == IF k \in DOMAIN cfg THEN cfg ELSE cfg @@ (k :> v)

\* `for k, v in defaults: app.config.setdefault(k, v)`, from entry i on
RECURSIVE ApplyDefaultsFrom(_, _)
ApplyDefaultsFrom(cfg, i) ==
    IF i > Len(defaults) THEN cfg
    ELSE ApplyDefaultsFrom(SetDefault(cfg, defaults[i][1], defaults[i][2]), i + 1)

ApplyDefaults(cfg) == ApplyDefaultsFrom(cfg, 1)

\* DictCache.__init__
DictCacheNew == [present |-> TRUE, data |-> <<>>]

NoCache == [present |-> FALSE, data |-> <<>>]

\* `backend() if backend else None`
MakeCache(backend) == IF backend # None THEN DictCacheNew ELSE NoCache

\* `(self._brotli_cache_key, self._gzip_cache_key)`
MakeCacheKeys(cfg) ==
    <<cfg["BROTLI_COMPRESS_CACHE_KEY"], cfg["GZIP_COMPRESS_CACHE_KEY"]>>

\* `app.config['COMPRESS_REGISTER'] and app.config['COMPRESS_MIMETYPES']`
Registers(cfg) == cfg["COMPRESS_REGISTER"] /\ cfg["COMPRESS_MIMETYPES"] # {}

------------------------------------------------------------------------------
(* The response object (framework contract) *)

\* headers[k] = v
SetHeader(h, k, v) == [x \in DOMAIN h \cup {k} |-> IF x = k THEN v ELSE h[x]]

\* response.content_length is None
NoContentLength(resp) == "Content-Length" \notin DOMAIN resp.headers

\* response.content_length
content_length(resp) == resp.headers["Content-Length"]

\* response.set_data(value): the body, and Content-Length with it
set_data(resp, value) ==
    [resp EXCEPT !.data = value,
                 !.headers = SetHeader(@, "Content-Length", Len(value))]

\* request.headers.get('Accept-Encoding', '')
AcceptEncodingOf(req) ==
    IF "Accept-Encoding" \in DOMAIN req.headers
    THEN req.headers["Accept-Encoding"] ELSE <<>>

------------------------------------------------------------------------------
(* The compression routines *)

MODE_GENERIC == 0

MODE_TEXT == 1

MaxBrotliQuality == 11

\* zlib.compressobj accepts -1 (the default) and 0..9, and raises otherwise
GzipLevelOk(level) == level >= -1 /\ level <= Z_BEST_COMPRESSION

\* brotli.compress accepts qualities 0..11, and raises otherwise
BrotliLevelOk(level) == level >= 0 /\ level <= MaxBrotliQuality

\* The gzip container GzipFile writes: magic, method, the time of writing,
\* then the stream (which the level shapes) of the data.
GzipContainer(level, mtime, data) == <<31, 139, 8, mtime, level>> \o data

\* The raw stream brotli.compress returns.
BrotliStream(mode, level, data) == <<206, mode, level>> \o data

\* What a client decoding `bytes` under Content-Encoding token `enc` reads:
\* <<body>>, or <<>> when the bytes are no such stream.
Decode(enc, bytes) ==
    IF enc = T_gzip /\ Len(bytes) >= 5 /\ SubSeq(bytes, 1, 3) = <<31, 139, 8>>
    THEN <<SubSeq(bytes, 6, Len(bytes))>>
    ELSE IF enc = T_brotli /\ Len(bytes) >= 3 /\ bytes[1] = 206
    THEN <<SubSeq(bytes, 4, Len(bytes))>>
    ELSE <<>>

\* min(a, b)
Min(a, b) == IF a <= b THEN a ELSE b

\* The compresslevel _gzip_compress hands to GzipFile.  `level`, the clamped
\* value, is computed on line 150 and never used.
GzipLevelHanded(cfg) ==
    LET level == Min(Z_BEST_COMPRESSION, cfg["COMPRESS_LEVEL"])
    IN  cfg["COMPRESS_LEVEL"]

\* Compress._gzip_compress: [ok, bytes, level]; ok = FALSE when the engine raises
gzip_compress(cfg, resp, mtime) ==
    LET lv == GzipLevelHanded(cfg)
    IN  IF GzipLevelOk(lv)
        THEN [ok |-> TRUE, bytes |-> GzipContainer(lv, mtime, resp.data), level |-> lv]
        ELSE [ok |-> FALSE, bytes |-> <<>>, level |-> lv]

\* the mode of _brotli_compress
BrotliMode(resp) ==
    IF resp.mimetype \in TEXT_TYPES THEN MODE_TEXT ELSE MODE_GENERIC

\* Compress._brotli_compress
brotli_compress(cfg, resp) ==
    LET lv == cfg["COMPRESS_LEVEL"]
    IN  IF BrotliLevelOk(lv)
        THEN [ok |-> TRUE, bytes |-> BrotliStream(BrotliMode(resp), lv, resp.data),
              level |-> lv]
        ELSE [ok |-> FALSE, bytes |-> <<>>, level |-> lv]

\* self._compress_methods[encoding](app, response)
compress_methods(encoding, cfg, resp, mtime) ==
    IF encoding = BROTLI THEN brotli_compress(cfg, resp)
    ELSE gzip_compress(cfg, resp, mtime)

------------------------------------------------------------------------------
(* The cache *)

\* DictCache.get that never finds the entry
DictCacheGetMiss(c, key) == <<>>

\* DictCache.get: <<value>>, or <<>> for None
DictCacheGet(c, key) ==
    IF key \in DOMAIN c.data THEN <<c.data[key]>> ELSE <<>>

\* DictCache.set that another thread can see half done: the value without
\* its last byte
DictCacheSetTorn(c, key, value) ==
    [c EXCEPT !.data =
        [k \in DOMAIN c.data \cup {key} |->
            IF k = key THEN SubSeq(value, 1, Len(value) - 1) ELSE c.data[k]]]

\* DictCache.set
DictCacheSet(c, key, value) ==
    [c EXCEPT !.data =
        [k \in DOMAIN c.data \cup {key} |-> IF k = key THEN value ELSE c.data[k]]]

\* truth of `self._cache.get(key)` in `get(key) or compress(...)`
Truthy(got) == got # <<>> /\ got[1] # <<>>

\* The key functions an application configures (they are the application's):
\* by the request path alone, or by the path under the encoding's name.
KeyFns == {"by_path", "gzip_by_path", "brotli_by_path"}

\* self._cache_keys[encoding](response), for a key function that is not None
ApplyKeyFn(fn, req, resp) ==
    IF fn = "by_path" THEN <<req.path>>
    ELSE IF fn = "gzip_by_path" THEN <<"gzip", req.path>>
    ELSE <<"brotli", req.path>>

------------------------------------------------------------------------------
(* Compress.after_request *)

\* `encoding = None`
NoEncoding == -1

\* a mutant: `<=` for the `<` of line 106
NotEligibleOffByOne(cfg, resp) ==
    \/ resp.mimetype \notin cfg["COMPRESS_MIMETYPES"]
    \/ ~(200 <= resp.status_code /\ resp.status_code < 300)
    \/ NoContentLength(resp)
    \/ content_length(resp) <= cfg["COMPRESS_MIN_SIZE"]
    \/ "Content-Encoding" \in DOMAIN resp.headers

\* the test of lines 103-107: TRUE when the response is returned as it is
NotEligible(cfg, resp) ==
    \/ resp.mimetype \notin cfg["COMPRESS_MIMETYPES"]
    \/ ~(200 <= resp.status_code /\ resp.status_code < 300)
    \/ NoContentLength(resp)
    \/ content_length(resp) < cfg["COMPRESS_MIN_SIZE"]
    \/ "Content-Encoding" \in DOMAIN resp.headers

\* lines 110-115
SelectEncoding(cfg, accept_encoding) ==
    IF cfg["ENABLE_BROTLI"] /\ Contains(T_brotli, Lower(accept_encoding))
    THEN BROTLI
    ELSE IF cfg["ENABLE_GZIP"] /\ Contains(T_gzip, Lower(accept_encoding))
    THEN GZIP
    ELSE NoEncoding

\* line 120 left out
KeepPassthrough(resp) == resp

\* line 120
ClearPassthrough(resp) == [resp EXCEPT !.direct_passthrough = FALSE]

\* lines 137-142: the Vary header after the merge
MergeVary(h) ==
    IF "Vary" \in DOMAIN h /\ h["Vary"] # <<>>
    THEN IF ~Contains(T_accept_encoding, Lower(h["Vary"]))
         THEN SetHeader(h, "Vary", h["Vary"] \o <<",", " ">> \o T_AcceptEncoding)
         ELSE h
    ELSE SetHeader(h, "Vary", T_AcceptEncoding)

\* lines 132-142
Rewrite(resp, compressed_content, encoding) ==
    LET r1 == set_data(resp, compressed_content)
        r2 == [r1 EXCEPT !.headers =
                  SetHeader(@, "Content-Encoding", CONTENT_ENCODINGS[encoding + 1])]
        r3 == [r2 EXCEPT !.headers =
                  SetHeader(@, "Content-Length", content_length(r2))]
    IN  [r3 EXCEPT !.headers = MergeVary(@)]

\* one entry of the spy's log
Call(op, enc, level) == [level |-> level, enc |-> enc, op |-> op]

\* what after_request leaves behind
Result(resp, c, how, log) ==
    [response |-> resp, cache |-> c, outcome |-> how, calls |-> log]

\* lines 122-130 with a cache: the key, the lookup, the compression on a miss,
\* the store
WithCache(cfg, c, keys, req, resp, encoding, mtime) ==
    LET fn == keys[encoding + 1]
    IN  IF fn = None
        THEN Result(resp, c, "raised", <<Call("key", encoding, 0)>>)
        ELSE
          LET key == ApplyKeyFn(fn, req, resp)
              got == DictCacheGet(c, key)
              made == compress_methods(encoding, cfg, resp, mtime)
              head == <<Call("key", encoding, 0), Call("get", encoding, 0)>>
          IN  IF Truthy(got)
              THEN Result(Rewrite(resp, got[1], encoding),
                          DictCacheSet(c, key, got[1]), "returned",
                          head \o <<Call("set", encoding, 0),
                                    Call("set_data", encoding, 0)>>)
              ELSE IF ~made.ok
              THEN Result(resp, c, "raised",
                          head \o <<Call("compress", encoding, made.level)>>)
              ELSE Result(Rewrite(resp, made.bytes, encoding),
                          DictCacheSet(c, key, made.bytes), "returned",
                          head \o <<Call("compress", encoding, made.level),
                                    Call("set", encoding, 0),
                                    Call("set_data", encoding, 0)>>)

\* line 130, without a cache
WithoutCache(cfg, c, resp, encoding, mtime) ==
    LET made == compress_methods(encoding, cfg, resp, mtime)
    IN  IF ~made.ok
        THEN Result(resp, c, "raised", <<Call("compress", encoding, made.level)>>)
        ELSE Result(Rewrite(resp, made.bytes, encoding), c, "returned",
                    <<Call("compress", encoding, made.level),
                      Call("set_data", encoding, 0)>>)

\* Compress.after_request, whole: mtime is the clock GzipFile reads
after_request(cfg, c, keys, req, resp, mtime) ==
    IF NotEligible(cfg, resp)
    THEN Result(resp, c, "returned", <<>>)
    ELSE
      LET encoding == SelectEncoding(cfg, AcceptEncodingOf(req))
      IN  IF encoding = NoEncoding
          THEN Result(resp, c, "returned", <<>>)
          ELSE IF c.present
          THEN WithCache(cfg, c, keys, req, ClearPassthrough(resp), encoding, mtime)
          ELSE WithoutCache(cfg, c, ClearPassthrough(resp), encoding, mtime)

------------------------------------------------------------------------------
(* Inputs *)

Restrict(f, S) == [k \in S |-> f[k]]

\* the values an application supplies for the options it sets itself
SuppliedValues ==
    [COMPRESS_MIMETYPES |-> {"image/png"},
     COMPRESS_LEVEL |-> 10,
     COMPRESS_MIN_SIZE |-> 2,
     ENABLE_GZIP |-> FALSE,
     ENABLE_BROTLI |-> FALSE,
     GZIP_COMPRESS_CACHE_KEY |-> "gzip_by_path",
     BROTLI_COMPRESS_CACHE_KEY |-> "brotli_by_path",
     COMPRESS_CACHE_BACKEND |-> "DictCache",
     COMPRESS_REGISTER |-> FALSE,
     SECRET_KEY |-> "dev"]

\* every choice of the options the application sets; COMPRESS_MIMETYPES may
\* also be set to the empty set
SuppliedConfigs ==
    LET some == {Restrict(SuppliedValues, S) : S \in SUBSET DOMAIN SuppliedValues}
    IN  some \cup {[c EXCEPT !["COMPRESS_MIMETYPES"] = {}] :
                     c \in {d \in some : "COMPRESS_MIMETYPES" \in DOMAIN d}}

\* the cache settings of the applications the pipeline is run in: none, a
\* DictCache with a key function per encoding, a DictCache with no key
\* function for Brotli, a DictCache with one key function for both
CacheSettings ==
    {Restrict(SuppliedValues, S) :
        S \in {{}, {"COMPRESS_CACHE_BACKEND", "GZIP_COMPRESS_CACHE_KEY",
                    "BROTLI_COMPRESS_CACHE_KEY"},
                   {"COMPRESS_CACHE_BACKEND", "GZIP_COMPRESS_CACHE_KEY"}}}
    \cup {[COMPRESS_CACHE_BACKEND |-> "DictCache",
           GZIP_COMPRESS_CACHE_KEY |-> "by_path",
           BROTLI_COMPRESS_CACHE_KEY |-> "by_path"]}

\* their other settings: COMPRESS_MIN_SIZE is 2, and at most one more option
OtherSettings ==
    {Restrict(SuppliedValues, {"COMPRESS_MIN_SIZE"} \cup S) :
        S \in {{}, {"COMPRESS_LEVEL"}, {"ENABLE_GZIP"}, {"ENABLE_BROTLI"},
               {"COMPRESS_MIMETYPES"}}}

PipelineConfigs == {a @@ b : a \in CacheSettings, b \in OtherSettings}

NoRequest == [headers |-> <<>>, path |-> ""]

NoResponse == [data |-> <<>>, headers |-> <<>>, mimetype |-> "",
               status_code |-> 0, direct_passthrough |-> FALSE]

\* a body of n bytes
Body(n) == [i \in 1..n |-> 120]

T_Cookie == <<"C","o","o","k","i","e">>

T_X_Accept_Encoding == <<"X","-">> \o T_AcceptEncoding

T_br_gzip == <<"b","r",","," ">> \o T_gzip

T_GZIP_Brotli == <<"G","Z","I","P",","," ","B","r","o","t","l","i">>

\* an optional header: <<>> leaves it out, <<v>> sets it to v
WithHeader(h, k, opt) == IF opt = <<>> THEN h ELSE SetHeader(h, k, opt[1])

\* the response an application's handler returns
MakeResponse(mimetype, status, n, known, ce, vary, passthrough) ==
    [data |-> Body(n),
     headers |->
        WithHeader(
            WithHeader(
                WithHeader(<<>>, "Content-Length", IF known THEN <<n>> ELSE <<>>),
                "Content-Encoding", ce),
            "Vary", vary),
     mimetype |-> mimetype, status_code |-> status,
     direct_passthrough |-> passthrough]

MakeRequest(ae, path) ==
    [headers |-> WithHeader(<<>>, "Accept-Encoding", ae), path |-> path]

\* The values the handlers' responses and the requests are drawn from, each
\* as a sequence.
MimeTypes == <<"text/html", "image/png">>

Statuses == <<199, 200, 299, 300>>

\* the Content-Encoding a response comes with: none, or gzip (a file stored
\* compressed)
Encoded == << <<>>, <<T_gzip>> >>

\* Vary: none, Cookie, X-Accept-Encoding
Varies == << <<>>, <<T_Cookie>>, <<T_X_Accept_Encoding>> >>

\* Accept-Encoding: none, gzip, `br, gzip`, `GZIP, Brotli`
Accepts == << <<>>, <<T_gzip>>, <<T_br_gzip>>, <<T_GZIP_Brotli>> >>

------------------------------------------------------------------------------
(* The state machine *)

\* Compress.init_app, as the values it leaves
init_app(cfg) ==
    LET c == ApplyDefaults(cfg)
    IN  [config |-> c,
         cache |-> MakeCache(c["COMPRESS_CACHE_BACKEND"]),
         cache_keys |-> MakeCacheKeys(c),
         registers |-> Registers(c)]

NoWorkers == <<>>

\* an application with its configuration, and `Compress()` not yet given it
InitCreated ==
    /\ config \in SuppliedConfigs
    /\ supplied = config
    /\ initcfg = config
    /\ cache = NoCache
    /\ cache_keys = <<None, None>>
    /\ registered = FALSE
    /\ inits = 0
    /\ phase = "created"
    /\ request = NoRequest
    /\ response = NoResponse
    /\ entry = NoResponse
    /\ outcome = "none"
    /\ calls = <<>>
    /\ workers = NoWorkers

\* after `Compress(app)`: the constructor has run init_app
Constructed(app) ==
    LET i == init_app(app)
    IN  /\ config = i.config
        /\ supplied = app
        /\ initcfg = i.config
        /\ cache = i.cache
        /\ cache_keys = i.cache_keys
        /\ registered = i.registers
        /\ inits = 1
        /\ phase = "idle"
        /\ request = NoRequest
        /\ response = NoResponse
        /\ entry = NoResponse
        /\ outcome = "none"
        /\ calls = <<>>

Init ==
    /\ \E app \in PipelineConfigs : Constructed(app)
    /\ workers = NoWorkers

\* compress.init_app(app), the first time or again
InitApp ==
    /\ phase \in {"created", "idle"}
    /\ inits < MaxInits
    /\ LET i == init_app(config)
       IN  /\ config' = i.config
           /\ initcfg' = i.config
           /\ cache' = i.cache
           /\ cache_keys' = i.cache_keys
           /\ registered' = (registered \/ i.registers)
    /\ inits' = inits + 1
    /\ phase' = "idle"
    /\ UNCHANGED <<request, response, entry, outcome, calls, workers, supplied>>

\* the application's handler returns a response for a request: any of the
\* responses and requests above, the Vary values and paths limited to the
\* first nv and np
Handle(nv, paths) ==
    /\ phase = "idle"
    /\ registered
    /\ \E m \in DOMAIN MimeTypes, st \in DOMAIN Statuses, n \in 1..MaxBodyLen,
          known \in BOOLEAN, ce \in DOMAIN Encoded, v \in 1..nv,
          pt \in BOOLEAN, a \in DOMAIN Accepts, p \in DOMAIN paths :
        LET resp == MakeResponse(MimeTypes[m], Statuses[st], n, known,
                                 Encoded[ce], Varies[v], pt)
        IN  /\ response' = resp
            /\ entry' = resp
            /\ request' = MakeRequest(Accepts[a], paths[p])
    /\ phase' = "pending"
    /\ outcome' = "none"
    /\ calls' = <<>>
    /\ UNCHANGED <<config, cache, cache_keys, workers, registered, inits,
                   supplied, initcfg>>

\* the key functions read from the configuration at each request
live_cache_keys == MakeCacheKeys(config)

\* self._cache_keys, as after_request reads it on line 123
self_cache_keys == cache_keys

\* the framework calls after_request on the response
AfterRequest ==
    /\ phase = "pending"
    /\ \E mtime \in 0..MaxTime :
        LET r == after_request(config, cache, self_cache_keys, request, response,
                               mtime)
        IN  /\ response' = r.response
            /\ cache' = r.cache
            /\ outcome' = r.outcome
            /\ calls' = r.calls
    /\ phase' = "done"
    /\ UNCHANGED <<config, cache_keys, request, entry, workers, registered,
                   inits, supplied, initcfg>>

\* the response (or the error) leaves; the application waits for a request
Deliver ==
    /\ phase = "done"
    /\ phase' = "idle"
    /\ request' = NoRequest
    /\ response' = NoResponse
    /\ entry' = NoResponse
    /\ outcome' = "none"
    /\ calls' = <<>>
    /\ UNCHANGED <<config, cache, cache_keys, workers, registered, inits,
                   supplied, initcfg>>

\* any response, for a request to one path
HandleAny == Handle(Len(Varies), <<"/a">>)

Next == HandleAny \/ AfterRequest \/ Deliver

\* The pipeline in an application built with `Compress(app)`.
Spec == Init /\ [][Next]_vars

------------------------------------------------------------------------------
(* The defaults of init_app, over every way an application sets the options *)

NextInit == InitApp

SpecInit == InitCreated /\ [][NextInit]_vars

------------------------------------------------------------------------------
(* The application changing its configuration after init_app *)

\* `app.config[k] = v` as an application (or a test) may write it
Changes == <<
    <<"COMPRESS_LEVEL", 1>>,
    <<"COMPRESS_LEVEL", 6>>,
    <<"COMPRESS_MIN_SIZE", 3>>,
    <<"ENABLE_BROTLI", FALSE>>,
    <<"ENABLE_GZIP", FALSE>>,
    <<"COMPRESS_MIMETYPES", {"image/png"}>>,
    <<"GZIP_COMPRESS_CACHE_KEY", "by_path">>,
    <<"BROTLI_COMPRESS_CACHE_KEY", None>>,
    <<"COMPRESS_CACHE_BACKEND", None>>,
    <<"COMPRESS_CACHE_BACKEND", "DictCache">> >>

\* the options whose value is not the one init_app left
Changed(cfg) == {k \in DOMAIN cfg : cfg[k] # initcfg[k]}

SetConfig ==
    /\ phase = "idle"
    /\ \E i \in DOMAIN Changes :
        LET c == [config EXCEPT ![Changes[i][1]] = Changes[i][2]]
        IN  /\ c # config
            /\ Cardinality(Changed(c)) <= MaxConfigChanges
            /\ config' = c
    /\ UNCHANGED <<cache, cache_keys, phase, request, response, entry, outcome,
                   calls, workers, registered, inits, supplied, initcfg>>

\* a response that passes for its type and status, of any length, for a
\* request that accepts gzip, or gzip and Brotli
HandleFew ==
    /\ phase = "idle"
    /\ registered
    /\ \E m \in DOMAIN MimeTypes, n \in 1..MaxBodyLen, a \in 1..2 :
        LET resp == MakeResponse(MimeTypes[m], 200, n, TRUE, <<>>, <<>>, TRUE)
        IN  /\ response' = resp
            /\ entry' = resp
            /\ request' = MakeRequest(Accepts[2 * a], "/a")
    /\ phase' = "pending"
    /\ outcome' = "none"
    /\ calls' = <<>>
    /\ UNCHANGED <<config, cache, cache_keys, workers, registered, inits,
                   supplied, initcfg>>

InitConfig ==
    /\ \E app \in {a @@ Restrict(SuppliedValues, {"COMPRESS_MIN_SIZE"}) :
                     a \in CacheSettings} : Constructed(app)
    /\ workers = NoWorkers

NextConfig == SetConfig \/ HandleFew \/ AfterRequest \/ Deliver

SpecConfig == InitConfig /\ [][NextConfig]_vars

------------------------------------------------------------------------------
(* Two requests in after_request at once, on two threads of one process.    *)
(* Each dict operation of DictCache is atomic; anything may happen between  *)
(* one request's get, its compression and its set.                          *)

IdleWorker ==
    [pc |-> "idle", request |-> NoRequest, entry |-> NoResponse,
     response |-> NoResponse, encoding |-> NoEncoding, key |-> <<>>,
     content |-> <<>>]

InitRace ==
    /\ \E app \in {a @@ Restrict(SuppliedValues, {"COMPRESS_MIN_SIZE"}) :
                     a \in CacheSettings} : Constructed(app)
    /\ workers = <<IdleWorker, IdleWorker>>

RaceFrame ==
    UNCHANGED <<config, cache_keys, phase, request, response, entry, outcome,
                calls, registered, inits, supplied, initcfg>>

\* a handler returns a response of 2 bytes or more to thread w
Arrive(w) ==
    /\ workers[w].pc = "idle"
    /\ registered
    /\ \E n \in 2..MaxBodyLen, a \in 1..2, p \in 1..2 :
        LET resp == MakeResponse("text/html", 200, n, TRUE, <<>>, <<>>, TRUE)
        IN  workers' = [workers EXCEPT
                ![w] = [@ EXCEPT !.pc = "start",
                                 !.request = MakeRequest(Accepts[2 * a],
                                                         <<"/a", "/b">>[p]),
                                 !.entry = resp,
                                 !.response = resp]]
    /\ UNCHANGED cache
    /\ RaceFrame

\* lines 100-123: the filter, the choice of encoding, the key
Begin(w) ==
    /\ workers[w].pc = "start"
    /\ LET me == workers[w]
           encoding == SelectEncoding(config, AcceptEncodingOf(me.request))
           cleared == ClearPassthrough(me.response)
       IN  workers' = [workers EXCEPT ![w] =
             IF NotEligible(config, me.response) \/ encoding = NoEncoding
             THEN [me EXCEPT !.pc = "returned"]
             ELSE IF ~cache.present
             THEN [me EXCEPT !.pc = "compress", !.response = cleared,
                             !.encoding = encoding]
             ELSE IF self_cache_keys[encoding + 1] = None
             THEN [me EXCEPT !.pc = "raised", !.response = cleared,
                             !.encoding = encoding]
             ELSE [me EXCEPT !.pc = "get", !.response = cleared,
                             !.encoding = encoding,
                             !.key = ApplyKeyFn(self_cache_keys[encoding + 1],
                                                me.request, cleared)]]
    /\ UNCHANGED cache
    /\ RaceFrame

\* line 125: self._cache.get(key)
Get(w) ==
    /\ workers[w].pc = "get"
    /\ LET got == DictCacheGet(cache, workers[w].key)
       IN  workers' = [workers EXCEPT ![w] =
             IF Truthy(got)
             THEN [@ EXCEPT !.pc = "set", !.content = got[1]]
             ELSE [@ EXCEPT !.pc = "compress"]]
    /\ UNCHANGED cache
    /\ RaceFrame

\* lines 126 and 130: self._compress_methods[encoding](app, response)
Compress(w) ==
    /\ workers[w].pc = "compress"
    /\ \E mtime \in 0..MaxTime :
        LET me == workers[w]
            made == compress_methods(me.encoding, config, me.response, mtime)
        IN  workers' = [workers EXCEPT ![w] =
              IF ~made.ok THEN [me EXCEPT !.pc = "raised"]
              ELSE [me EXCEPT !.content = made.bytes,
                              !.pc = IF cache.present THEN "set" ELSE "rewrite"]]
    /\ UNCHANGED cache
    /\ RaceFrame

\* line 128: self._cache.set(key, compressed_content)
Set(w) ==
    /\ workers[w].pc = "set"
    /\ cache' = DictCacheSet(cache, workers[w].key, workers[w].content)
    /\ workers' = [workers EXCEPT ![w] = [@ EXCEPT !.pc = "rewrite"]]
    /\ RaceFrame

\* lines 132-144
Finish(w) ==
    /\ workers[w].pc = "rewrite"
    /\ workers' = [workers EXCEPT ![w] =
          [@ EXCEPT !.pc = "returned",
                    !.response = Rewrite(@, workers[w].content,
                                         workers[w].encoding)]]
    /\ UNCHANGED cache
    /\ RaceFrame

NextRace ==
    \E w \in 1..2 :
        Arrive(w) \/ Begin(w) \/ Get(w) \/ Compress(w) \/ Set(w) \/ Finish(w)

SpecRace == InitRace /\ [][NextRace]_vars

------------------------------------------------------------------------------
(* What the claims speak of *)

\* s without its leading and trailing spaces
RECURSIVE Strip(_)
Strip(s) ==
    IF s # <<>> /\ s[1] = " " THEN Strip(Tail(s))
    ELSE IF s # <<>> /\ s[Len(s)] = " " THEN Strip(SubSeq(s, 1, Len(s) - 1))
    ELSE s

\* the comma-separated tokens of a header value, stripped
RECURSIVE TokensFrom(_, _)
TokensFrom(s, cur) ==
    IF s = <<>> THEN <<Strip(cur)>>
    ELSE IF s[1] = "," THEN <<Strip(cur)>> \o TokensFrom(Tail(s), <<>>)
    ELSE TokensFrom(Tail(s), Append(cur, s[1]))

Tokens(s) == IF s = <<>> THEN <<>> ELSE TokensFrom(s, <<>>)

\* t is one of the tokens of s, compared without case
HasToken(s, t) ==
    \E i \in DOMAIN Tokens(s) : Lower(Tokens(s)[i]) = Lower(t)

\* the last after_request compressed the response: it got to set_data
Applied == calls # <<>> /\ calls[Len(calls)].op = "set_data"

\* after_request has just run (as a step)
Ran == phase = "pending" /\ phase' = "done"

\* the calls of the log that are `op`
CallsOf(log, op) == {i \in DOMAIN log : log[i].op = op}

------------------------------------------------------------------------------
(* C1 *)

\* C1: once after_request has returned, the response was compressed if and
\* only if its Content-Encoding is one of the tokens brotli and gzip, that
\* token is one the request's Accept-Encoding declares and is the token of
\* the algorithm whose stream the body is, Content-Length is the length of
\* the body, and Accept-Encoding is one of the comma-separated tokens of Vary.
C1_CompressedIffHeaders ==
    (phase = "done" /\ outcome = "returned") =>
        (Applied <=>
            /\ Applied
            /\ "Content-Encoding" \in DOMAIN response.headers
            /\ LET ce == response.headers["Content-Encoding"]
               IN  /\ ce = T_brotli \/ ce = T_gzip
                   /\ Contains(ce, Lower(AcceptEncodingOf(request)))
                   /\ ce = CONTENT_ENCODINGS[calls[1].enc + 1]
                   /\ Decode(ce, response.data) # <<>>
            /\ "Content-Length" \in DOMAIN response.headers
            /\ response.headers["Content-Length"] = Len(response.data)
            /\ "Vary" \in DOMAIN response.headers
            /\ HasToken(response.headers["Vary"], T_AcceptEncoding))

------------------------------------------------------------------------------
(* C3 *)

\* C3: for an eligible response with both algorithms enabled, a request whose
\* Accept-Encoding is `br, gzip`, or otherwise declares both, gets Brotli;
\* gzip is selected only when Brotli is disabled or not offered; nothing is
\* compressed when no enabled algorithm is offered.
C3_BrotliFirst ==
    (phase = "done" /\ outcome = "returned" /\ ~NotEligible(config, entry)) =>
        LET ae == Lower(AcceptEncodingOf(request))
            offersBrotli == HasToken(ae, <<"b", "r">>) \/ Contains(T_brotli, ae)
            offersGzip == Contains(T_gzip, ae)
            ce == IF "Content-Encoding" \in DOMAIN response.headers
                  THEN <<response.headers["Content-Encoding"]>> ELSE <<>>
        IN  /\ (config["ENABLE_BROTLI"] /\ config["ENABLE_GZIP"]
                  /\ offersBrotli /\ offersGzip) => ce = <<T_brotli>>
            /\ ce = <<T_gzip>> => (~config["ENABLE_BROTLI"] \/ ~offersBrotli)
            /\ (~(config["ENABLE_BROTLI"] /\ offersBrotli)
                  /\ ~(config["ENABLE_GZIP"] /\ offersGzip)) => ce = <<>>

------------------------------------------------------------------------------
(* C5 *)

\* C5: the level _gzip_compress hands to the gzip engine is
\* min(9, COMPRESS_LEVEL); the level _brotli_compress hands on is
\* COMPRESS_LEVEL itself.
C5_GzipLevelClamped ==
    \A i \in DOMAIN calls :
        calls[i].op = "compress" =>
            calls[i].level = IF calls[i].enc = GZIP
                             THEN Min(9, config["COMPRESS_LEVEL"])
                             ELSE config["COMPRESS_LEVEL"]

------------------------------------------------------------------------------
(* C7 *)

\* C7: after a response is compressed, whatever its Vary header was, Vary has
\* every token it had and has Accept-Encoding as a token exactly once
\* (compared without case); with no Vary header before, Vary is exactly
\* `Accept-Encoding`.
C7_VaryMergedOnce ==
    (phase = "done" /\ outcome = "returned" /\ Applied) =>
        LET before == IF "Vary" \in DOMAIN entry.headers
                      THEN Tokens(entry.headers["Vary"]) ELSE <<>>
            after == Tokens(response.headers["Vary"])
        IN  /\ \A i \in DOMAIN before : \E j \in DOMAIN after : after[j] = before[i]
            /\ Cardinality({j \in DOMAIN after :
                              Lower(after[j]) = T_accept_encoding}) = 1
            /\ "Vary" \notin DOMAIN entry.headers
                  => response.headers["Vary"] = T_AcceptEncoding

------------------------------------------------------------------------------
(* C2 *)

\* the four conditions of the claim, one of which fails
FailsACondition(cfg, resp) ==
    \/ ~(resp.mimetype \in cfg["COMPRESS_MIMETYPES"])
    \/ resp.status_code < 200 \/ resp.status_code >= 300
    \/ "Content-Length" \notin DOMAIN resp.headers
    \/ resp.headers["Content-Length"] < cfg["COMPRESS_MIN_SIZE"]
    \/ "Content-Encoding" \in DOMAIN resp.headers

\* the request's Accept-Encoding names an algorithm that is enabled
OffersEnabled(cfg, req) ==
    LET ae == Lower(AcceptEncodingOf(req))
    IN  \/ cfg["ENABLE_BROTLI"] /\ Contains(T_brotli, ae)
        \/ cfg["ENABLE_GZIP"] /\ Contains(T_gzip, ae)

\* C2: when one of the four conditions fails, after_request returns the
\* response as it was (body, headers and pass-through flag) and touches
\* neither the cache nor a compression routine.  A response whose length is
\* COMPRESS_MIN_SIZE - 1 is left as it was; one whose length is exactly
\* COMPRESS_MIN_SIZE, the other conditions holding and the Accept-Encoding
\* naming an enabled algorithm, is not returned as it was: it goes on to the
\* cache and the compression routine, and is compressed unless one of them
\* raises.
C2_EligibilityFilter ==
    [][Ran =>
        /\ FailsACondition(config, response) =>
              /\ response' = response
              /\ cache' = cache
              /\ calls' = <<>>
              /\ outcome' = "returned"
        /\ ("Content-Length" \in DOMAIN response.headers
              /\ response.headers["Content-Length"] = config["COMPRESS_MIN_SIZE"] - 1)
              => (response' = response /\ calls' = <<>>)
        /\ (~FailsACondition(config, response)
              /\ response.headers["Content-Length"] = config["COMPRESS_MIN_SIZE"]
              /\ OffersEnabled(config, request)) =>
              /\ calls' # <<>>
              /\ outcome' = "returned" =>
                    /\ "Content-Encoding" \in DOMAIN response'.headers
                    /\ response'.data # response.data
                    /\ response'.headers["Content-Length"] = Len(response'.data)
    ]_vars

\* a response one byte short of COMPRESS_MIN_SIZE and eligible otherwise, in an
\* application with a cache, for a request that accepts gzip: returned as it was
C2_Witness ==
    /\ phase = "done"
    /\ cache.present
    /\ entry.mimetype \in config["COMPRESS_MIMETYPES"]
    /\ entry.status_code = 200
    /\ "Content-Length" \in DOMAIN entry.headers
    /\ entry.headers["Content-Length"] = config["COMPRESS_MIN_SIZE"] - 1
    /\ "Content-Encoding" \notin DOMAIN entry.headers
    /\ OffersEnabled(config, request)
    /\ entry.direct_passthrough
    /\ response = entry
    /\ calls = <<>>

------------------------------------------------------------------------------
(* C4 *)

\* the key the request of this step is cached under
KeyOf(enc) == ApplyKeyFn(cache_keys[enc + 1], request, response)

\* C4: in an application with a cache, a request whose key has no entry (a
\* miss) calls the compression routine once, and stores what it made under
\* the key before the response is rewritten; a request whose key has an entry
\* (a hit) calls no compression routine and returns the stored bytes.  Either
\* way the entry is then the bytes returned, and no entry ever changes once
\* stored: the sequential requests of one key return the same bytes.
C4_CacheHitMiss ==
    [][(Ran /\ cache.present /\ outcome' = "returned" /\ calls' # <<>>) =>
        LET key == KeyOf(calls'[1].enc)
            compress == CallsOf(calls', "compress")
            set == CallsOf(calls', "set")
            rewrite == CallsOf(calls', "set_data")
        IN  /\ key \in DOMAIN cache.data =>
                  /\ compress = {}
                  /\ response'.data = cache.data[key]
            /\ key \notin DOMAIN cache.data =>
                  /\ Cardinality(compress) = 1
                  /\ \A i \in compress, j \in set : i < j
            /\ Cardinality(set) = 1 /\ Cardinality(rewrite) = 1
            /\ \A i \in set, j \in rewrite : i < j
            /\ key \in DOMAIN cache'.data
            /\ cache'.data[key] = response'.data
            /\ \A k \in DOMAIN cache.data :
                  k \in DOMAIN cache'.data /\ cache'.data[k] = cache.data[k]
    ]_vars

\* a hit: the cache was read, no compression routine ran, and the response
\* carries the stored bytes
C4_Witness ==
    /\ phase = "done"
    /\ outcome = "returned"
    /\ cache.present
    /\ CallsOf(calls, "get") # {}
    /\ CallsOf(calls, "compress") = {}
    /\ Applied
    /\ response.data # entry.data
    /\ \E k \in DOMAIN cache.data : cache.data[k] = response.data

------------------------------------------------------------------------------
(* C6 *)

\* the compression routine that after_request would call rejects the level
\* it is handed
EngineRejects(cfg, enc) ==
    IF enc = GZIP THEN ~GzipLevelOk(cfg["COMPRESS_LEVEL"])
    ELSE ~BrotliLevelOk(cfg["COMPRESS_LEVEL"])

------------------------------------------------------------------------------
(* C10 *)

\* the documented default of each of the nine options
DocumentedDefaults ==
    << <<"COMPRESS_MIMETYPES", {"text/html", "text/css", "text/xml",
                                "application/json", "application/javascript"}>>,
       <<"COMPRESS_LEVEL", 6>>,
       <<"COMPRESS_MIN_SIZE", 500>>,
       <<"ENABLE_GZIP", TRUE>>,
       <<"ENABLE_BROTLI", TRUE>>,
       <<"GZIP_COMPRESS_CACHE_KEY", None>>,
       <<"BROTLI_COMPRESS_CACHE_KEY", None>>,
       <<"COMPRESS_CACHE_BACKEND", None>>,
       <<"COMPRESS_REGISTER", TRUE>> >>

\* C10: once init_app has run, every key the application supplied keeps the
\* value it supplied, each of the nine options it did not supply has its
\* documented default, the configuration has no other key, and the defaults
\* loop run on it again leaves it as it is.
C10_DefaultsResolved ==
    inits >= 1 =>
        /\ \A k \in DOMAIN supplied :
              k \in DOMAIN config /\ config[k] = supplied[k]
        /\ \A i \in DOMAIN DocumentedDefaults :
              LET k == DocumentedDefaults[i][1]
              IN  /\ k \in DOMAIN config
                  /\ k \notin DOMAIN supplied =>
                        config[k] = DocumentedDefaults[i][2]
        /\ \A k \in DOMAIN config :
              \/ k \in DOMAIN supplied
              \/ \E i \in DOMAIN DocumentedDefaults : DocumentedDefaults[i][1] = k
        /\ ApplyDefaults(config) = config

\* init_app has run twice on an application that supplied a level and a
\* cache backend and neither a minimum size nor key functions
C10_Witness ==
    /\ inits = 2
    /\ "COMPRESS_LEVEL" \in DOMAIN supplied
    /\ "COMPRESS_CACHE_BACKEND" \in DOMAIN supplied
    /\ "SECRET_KEY" \in DOMAIN supplied
    /\ "COMPRESS_MIN_SIZE" \notin DOMAIN supplied
    /\ "GZIP_COMPRESS_CACHE_KEY" \notin DOMAIN supplied
    /\ config["COMPRESS_LEVEL"] = supplied["COMPRESS_LEVEL"]
    /\ config["COMPRESS_LEVEL"] # DefaultLevel
    /\ config["COMPRESS_MIN_SIZE"] = DefaultMinSize
    /\ config["GZIP_COMPRESS_CACHE_KEY"] = None

------------------------------------------------------------------------------
(* C9 *)

\* the step is after_request run with these settings, cache and key functions
RanAs(cfg, c, keys) ==
    \E mtime \in 0..MaxTime :
        LET r == after_request(cfg, c, keys, request, response, mtime)
        IN  /\ response' = r.response
            /\ cache' = r.cache
            /\ outcome' = r.outcome
            /\ calls' = r.calls

\* the cache and the key functions that the configuration init_app left
\* stands for
CacheOf(cfg) ==
    [present |-> cfg["COMPRESS_CACHE_BACKEND"] # None, data |-> cache.data]

\* C9 as the specification words it: every request is processed with the
\* settings init_app left, whatever the application has written to its
\* configuration since.
C9_SnapshotAtStartup ==
    [][Ran => RanAs(initcfg, CacheOf(initcfg), MakeCacheKeys(initcfg))]_vars

\* C9: the cache backend and the two key functions are the ones the
\* configuration held when init_app ran, whatever the application has
\* written to its configuration since; the mimetypes, the level, the minimum
\* size and the two enable flags are the ones the configuration holds when
\* the request is processed.  after_request writes neither the configuration
\* nor the key functions, and leaves the cache backend in place.
C9_BackendAndKeysSnapshot ==
    [][Ran =>
        /\ RanAs(config, CacheOf(initcfg), MakeCacheKeys(initcfg))
        /\ config' = config
        /\ cache_keys' = cache_keys
        /\ cache'.present = cache.present
    ]_vars

\* the application took its cache backend and its gzip key function out of
\* the configuration, or put another key function in, after init_app: the
\* request still went through the cache under the key function init_app read
C9_Witness ==
    /\ phase = "done"
    /\ outcome = "returned"
    /\ \/ config["COMPRESS_CACHE_BACKEND"] # initcfg["COMPRESS_CACHE_BACKEND"]
       \/ config["GZIP_COMPRESS_CACHE_KEY"] # initcfg["GZIP_COMPRESS_CACHE_KEY"]
    /\ CallsOf(calls, "get") # {}
    /\ calls[1].enc = GZIP
    /\ ApplyKeyFn(initcfg["GZIP_COMPRESS_CACHE_KEY"], request, entry)
          \in DOMAIN cache.data

------------------------------------------------------------------------------
(* C8 *)

\* thread w has a key
Keyed(w) == workers[w].key # <<>>

\* the two requests are for one key, one body and one encoding
SameRequest ==
    /\ Keyed(1) /\ Keyed(2)
    /\ workers[1].key = workers[2].key
    /\ workers[1].entry.data = workers[2].entry.data
    /\ workers[1].encoding = workers[2].encoding

\* the requests that share a key share their body and their encoding
KeysTellBodies ==
    \A v, w \in 1..2 :
        (Keyed(v) /\ Keyed(w) /\ workers[v].key = workers[w].key) =>
            /\ workers[v].entry.data = workers[w].entry.data
            /\ workers[v].encoding = workers[w].encoding

\* thread w has stored its content
Stored(w) == Keyed(w) /\ workers[w].pc \in {"rewrite", "returned"}

\* C8 as the specification words it: the compressed form of a body is one
\* sequence of bytes, so with two requests for one key and body (and one
\* encoding) the entry is the content of every thread that has stored.
C8_EntryIsTheCompressedForm ==
    SameRequest =>
        \A w \in 1..2 : Stored(w) => cache.data[workers[w].key] = workers[w].content

\* C8: with two requests in after_request at once, whose keys tell their
\* bodies and encodings apart, under every interleaving: every entry of the
\* cache is whole, a compressed form of the body of the request it was stored
\* for (decoding it gives that body back), though not always the same bytes,
\* gzip output carrying the time it was made; a thread that has stored finds
\* under its key a compressed form of its body; and a request that returns,
\* returns a compressed form of its own body under its encoding's token.
C8_EntryAlwaysDecodes ==
    KeysTellBodies =>
        /\ \A k \in DOMAIN cache.data :
              \E w \in 1..2 :
                  /\ workers[w].key = k
                  /\ Decode(CONTENT_ENCODINGS[workers[w].encoding + 1],
                            cache.data[k]) = <<workers[w].entry.data>>
        /\ \A w \in 1..2 :
              Stored(w) =>
                  /\ workers[w].key \in DOMAIN cache.data
                  /\ Decode(CONTENT_ENCODINGS[workers[w].encoding + 1],
                            cache.data[workers[w].key]) = <<workers[w].entry.data>>
        /\ \A w \in 1..2 :
              (workers[w].pc = "returned" /\ workers[w].encoding # NoEncoding) =>
                  /\ workers[w].response.data = workers[w].content
                  /\ "Content-Encoding" \in DOMAIN workers[w].response.headers
                  /\ Decode(workers[w].response.headers["Content-Encoding"],
                            workers[w].response.data) = <<workers[w].entry.data>>

\* both requests, for one key, body and encoding, missed and compressed, and
\* made different bytes; both have returned and the entry is the later write
C8_Witness ==
    /\ SameRequest
    /\ workers[1].pc = "returned" /\ workers[2].pc = "returned"
    /\ workers[1].content # workers[2].content
    /\ cache.data[workers[1].key] = workers[2].content

====
